---- MODULE Spec2Model ----
(***************************************************************************)
(* Model of ec2_s3_combined.py: one monitoring run that queries the        *)
(* telemetry backend (CloudWatch get_metric_data) for an EC2 instance and  *)
(* an S3 bucket, the cost backend (Cost Explorer get_cost_and_usage), and  *)
(* prints the values and an underutilized/normal status for each resource. *)
(*                                                                         *)
(* Numbers.  A raw sample value is the record [w, h] standing for w + h/2  *)
(* (h is 0 or 1), so that fractional samples exist and every value is an   *)
(* exact binary float.  Results are fixed point: cpu, net_in and net_out   *)
(* in hundredths (round(x, 2)), size_gb in thousandths (round(x, 3)),      *)
(* cost in ten-thousandths (round(x, 4)); daily cost amounts are in units  *)
(* of 0.00001.  Python's round() rounds the exact binary value to the      *)
(* nearest decimal, ties to even; the arithmetic below does the same       *)
(* without leaving 32-bit integers.                                        *)
(***************************************************************************)
EXTENDS Integers, Sequences, FiniteSets, TLC

VARIABLES
    pc,           \* position of the run / of the function under call
    calls,        \* backend calls issued so far, in order
    error,        \* the exception caught at line 213 ("" while none)
    stub,         \* SpecCall: the responses the backend returns
    resp_daily,   \* get_s3_metrics' local between its two backend calls
    cpu, net_in, net_out,              \* line 188
    size_gb, obj_count, s3_requests,   \* line 189
    cost,                              \* line 190
    out,          \* lines printed so far
    exit_code     \* -1 while running, then the process exit status

vars == <<pc, calls, error, stub, resp_daily, cpu, net_in, net_out,
          size_gb, obj_count, s3_requests, cost, out, exit_code>>

\* ------------------------------------------------------------------ bounds
MaxSamples == 2
MaxDays == 4

\* ------------------------------------------------------------------ CONFIG
\* 10.0 percent, in hundredths
CPU_THRESHOLD == 1000
\* 10.0 MB, in hundredths
NET_THRESHOLD_MB == 1000
LOOKBACK_DAYS_COST == 7

\* ------------------------------------------------------------------ values
Val(n) == [w |-> n, h |-> 0]
Half(n) == [w |-> n, h |-> 1]
Zero == Val(0)

\* 1024.0 * 1024.0 and 1024.0 ** 3
MB == 1024 * 1024
GB == 1024 * 1024 * 1024

\* q + (rem/d rounded to 0 or 1, ties to the even result)
HalfEven(q, rem, d) ==
    IF rem > d \div 2 THEN q + 1
    ELSE IF rem < d \div 2 THEN q
    ELSE IF q % 2 = 0 THEN q ELSE q + 1

\* round(v / d, k) in units of 10^-k, scale = 10^k, d = MB or GB.  v.w * scale
\* is split in limbs (v.w = wq*d + a*L + b) so that no product exceeds 2^31.
PyTruncDiv(v, scale, d) ==
    LET L  == d \div MB
        wr == (v.w) % d
        T  == ((wr \div L) * scale) + (((wr % L) * scale) \div L)
    IN  (((v.w) \div d) * scale) + (T \div MB)

PyRoundDiv(v, scale, d) ==
    LET L    == d \div MB
        wq   == (v.w) \div d
        wr   == (v.w) % d
        a    == wr \div L
        b    == wr % L
        T    == (a * scale) + ((b * scale) \div L)
        f    == T \div MB
        rem0 == ((T % MB) * L) + ((b * scale) % L)
        rem1 == rem0 + v.h * (scale \div 2)
        c    == IF rem1 >= d THEN 1 ELSE 0
    IN  HalfEven(wq * scale + f + c, rem1 - c * d, d)

\* round(v, 2) in hundredths: w + h/2 has at most one decimal
PyRound2(v) == v.w * 100 + v.h * 50

\* int(v): truncation toward zero (samples are not negative)
PyInt(v) == v.w

\* `x or 0.0`
PyOr(v, default) == IF v = Zero THEN default ELSE v

\* ------------------------------------------------------------------ responses
SeqsUpTo(S, n) == UNION {[1..k -> S] : k \in 0..n}

\* the results of one get_metric_data response: series with distinct Ids, in
\* any order, any of them possibly missing, each with 0..MaxSamples samples
IdOrders(ids) ==
    {o \in SeqsUpTo(ids, Cardinality(ids)) :
        \A i, j \in 1..Len(o) : i # j => o[i] # o[j]}

Samples(vals) == SeqsUpTo(vals, MaxSamples)

\* the response with the series named o[1], o[2], ... holding the samples vs[i]
Response(o, vs) == [i \in 1..Len(o) |-> [Id |-> o[i], Values |-> vs[i]]]

Ec2Ids == {"cpu", "net_in", "net_out"}
DailyIds == {"bucket_size", "obj_count"}
RequestIds == {"all_requests"}

\* sample values of the whole run
RunComputeValues == {Half(2), Val(10), Val(10485760)}
RunDailyValues == {Val(3), Val(50), Val(1073741824)}
RunRequestValues == {Val(2), Val(20)}
\* sample values of the single calls
ComputeValues == {Half(2), Val(5242880), Val(10480518)}
DailyValues == {Half(49), Val(53687091), Val(1073741824)}
RequestValues == {Val(2), Half(19), Val(20)}

\* one day of ResultsByTime: "no_total" has no Total/UnblendedCost/Amount key,
\* "null" has Amount None, "amount" has the Amount string amt (units of 1e-5)
Day(has, amt) == [has |-> has, amt |-> amt]
Days(amounts) == {Day("no_total", 0), Day("null", 0)} \cup {Day("amount", a) : a \in amounts}
RunCostDays == {Day("null", 0), Day("amount", 4), Day("amount", 123450)}
CostDays == Days({0, 4, 123450, 300000})
CostResponses(days) == SeqsUpTo(days, MaxDays)

\* ------------------------------------------------------------------ get_ec2_metrics
\* one query of a batch
Query(id, name, period, stat) == [Id |-> id, MetricName |-> name, Period |-> period, Stat |-> stat]

\* a backend call: the queries sent and EndTime - StartTime in seconds
Call(api, queries, window) == [api |-> api, queries |-> queries, window |-> window]

ec2_queries ==
    << Query("cpu", "CPUUtilization", 300, "Average"),
       Query("net_in", "NetworkIn", 300, "Sum"),
       Query("net_out", "NetworkOut", 300, "Sum") >>

\* cloudwatch.get_metric_data(...) of get_ec2_metrics: the last hour
ec2_call == Call("get_metric_data", ec2_queries, 1 * 3600)

\* the first sample of the first series that has samples, whatever its Id
RECURSIVE latest_value(_, _)
latest_value(results, default) ==
    IF results = << >> THEN default
    ELSE IF Len(Head(results).Values) = 0 THEN latest_value(Tail(results), default)
    ELSE Head(results).Values[1]

\* `for r in results: if r['Id'] == id and r.get('Values'): x = r['Values'][0]`:
\* the first sample of the last series named id that has samples, else init
RECURSIVE scan_last(_, _, _)
scan_last(results, id, init) ==
    IF results = << >> THEN init
    ELSE scan_last(Tail(results), id,
              IF Head(results).Id = id /\ Head(results).Values # << >>
              THEN << Head(results).Values[Len(Head(results).Values)] >> ELSE init)

RECURSIVE scan(_, _, _)
scan(results, id, init) ==
    IF results = << >> THEN init
    ELSE scan(Tail(results), id,
              IF Head(results).Id = id /\ Head(results).Values # << >>
              THEN << Head(results).Values[1] >> ELSE init)

\* x / (1024.0 * 1024.0) of the sample found, 0.0 if none, then round(x, 2)
net_mb(found) == IF found = << >> THEN 0 ELSE PyRoundDiv(found[1], 100, MB)

get_ec2_metrics(resp) ==
    [cpu     |-> PyRound2(PyOr(latest_value(resp, Zero), Zero)),
     net_in  |-> net_mb(scan(resp, "net_in", << >>)),
     net_out |-> net_mb(scan(resp, "net_out", << >>))]

\* ------------------------------------------------------------------ get_s3_metrics
s3_queries ==
    << Query("bucket_size", "BucketSizeBytes", 86400, "Average"),
       Query("obj_count", "NumberOfObjects", 86400, "Average"),
       Query("all_requests", "AllRequests", 300, "Sum") >>

IsDaily(q) == q.Id \in {"bucket_size", "obj_count"}
IsRequest(q) == q.Id = "all_requests"

\* the two get_metric_data calls: the last 2 days, the last hour
s3_merged_call == Call("get_metric_data", s3_queries, 2 * 86400)
s3_daily_call == Call("get_metric_data", SelectSeq(s3_queries, IsDaily), 2 * 86400)
s3_req_call == Call("get_metric_data", SelectSeq(s3_queries, IsRequest), 1 * 3600)

\* x / (1024.0 ** 3) of the sample found, 0.0 if none, then round(x, 3)
size_gb_of(found) == IF found = << >> THEN 0 ELSE PyRoundDiv(found[1], 1000, GB)

\* int(x) of the sample found, 0 if none
count_of(found) == IF found = << >> THEN 0 ELSE PyInt(found[1])

get_s3_metrics(daily, req) ==
    [size_gb   |-> size_gb_of(scan(daily, "bucket_size", << >>)),
     obj_count |-> count_of(scan(daily, "obj_count", << >>)),
     requests  |-> count_of(scan(req, "all_requests", << >>))]

\* ------------------------------------------------------------------ get_ec2_cost
cost_call(days) == Call("get_cost_and_usage", << >>, days * 86400)

\* day.get('Total', {}).get('UnblendedCost', {}).get('Amount') is truthy
HasAmount(day) == day.has = "amount"

\* total += float(amt) of one day
add_day_rounded(total, day) ==
    IF HasAmount(day) THEN total + 10 * HalfEven(day.amt \div 10, day.amt % 10, 10) ELSE total

add_day(total, day) == IF HasAmount(day) THEN total + day.amt ELSE total

RECURSIVE sum_days(_, _)
sum_days(results, total) ==
    IF results = << >> THEN total
    ELSE sum_days(Tail(results), add_day(total, Head(results)))

\* round(total, 4): amounts are in units of 1e-5
PyRound4(total) == HalfEven(total \div 10, total % 10, 10)

get_ec2_cost(resp) == PyRound4(sum_days(resp, 0))

\* ------------------------------------------------------------------ __main__
Line(tag, val) == [tag |-> tag, val |-> val]

ec2_underutilized_le(c, i, o) == c <= CPU_THRESHOLD /\ i < NET_THRESHOLD_MB /\ o < NET_THRESHOLD_MB

ec2_underutilized(c, i, o) == c < CPU_THRESHOLD /\ i < NET_THRESHOLD_MB /\ o < NET_THRESHOLD_MB

\* size_gb < 1 and obj_count < 50 and s3_requests < 20 (size_gb in thousandths)
s3_underutilized_le(s, n, r) == s <= 1000 /\ n < 50 /\ r < 20

s3_underutilized(s, n, r) == s < 1000 /\ n < 50 /\ r < 20

\* lines 192-212
report ==
    << Line("cpu", cpu), Line("net_in", net_in), Line("net_out", net_out),
       Line("size_gb", size_gb), Line("obj_count", obj_count),
       Line("s3_requests", s3_requests), Line("cost", cost),
       Line(IF ec2_underutilized(cpu, net_in, net_out)
            THEN "ec2_underutilized" ELSE "ec2_normal", 0),
       Line(IF s3_underutilized(size_gb, obj_count, s3_requests)
            THEN "s3_underutilized" ELSE "s3_normal", 0) >>

\* a backend call raises: except Exception as e: print("ERROR:", e); sys.exit(2)
RaiseAndReport(call, e) ==
    /\ calls' = Append(calls, call)
    /\ error' = e
    /\ out' = (out \o report) \o << Line("ERROR", 0) >>
    /\ exit_code' = 2
    /\ pc' = "exit"

RaiseAfterRetry(call, e) ==
    /\ calls' = calls \o << call, call >>
    /\ error' = e
    /\ out' = Append(out, Line("ERROR", 0))
    /\ exit_code' = 2
    /\ pc' = "exit"

Raise(call, e) ==
    /\ calls' = Append(calls, call)
    /\ error' = e
    /\ out' = Append(out, Line("ERROR", 0))
    /\ exit_code' = 2
    /\ pc' = "exit"

NoResponses == [compute |-> << >>, daily |-> << >>, request |-> << >>, cost |-> << >>]

Init ==
    /\ pc = "main"
    /\ calls = << >>
    /\ error = ""
    /\ stub = NoResponses
    /\ resp_daily = << >>
    /\ cpu = 0 /\ net_in = 0 /\ net_out = 0
    /\ size_gb = 0 /\ obj_count = 0 /\ s3_requests = 0
    /\ cost = 0
    /\ out = << >>
    /\ exit_code = -1

\* lines 187-188: the header, then get_ec2_metrics(INSTANCE_ID)
MainEc2Ok ==
    /\ pc = "main"
    /\ \E o \in IdOrders(Ec2Ids) : \E vs \in [1..Len(o) -> Samples(RunComputeValues)] :
         LET m == get_ec2_metrics(Response(o, vs)) IN
         /\ cpu' = m.cpu /\ net_in' = m.net_in /\ net_out' = m.net_out
    /\ calls' = Append(calls, ec2_call)
    /\ out' = Append(out, Line("header", 0))
    /\ pc' = "get_s3_metrics"
    /\ UNCHANGED <<error, stub, resp_daily, size_gb, obj_count, s3_requests, cost, exit_code>>

MainEc2Fails ==
    /\ pc = "main"
    /\ Raise(ec2_call, "compute batch")
    /\ UNCHANGED <<stub, resp_daily, cpu, net_in, net_out, size_gb, obj_count, s3_requests, cost>>

\* line 189, get_s3_metrics up to its first backend call (lines 86-140)
S3DailyOk ==
    /\ pc = "get_s3_metrics"
    /\ \E o \in IdOrders(DailyIds) : \E vs \in [1..Len(o) -> Samples(RunDailyValues)] :
         resp_daily' = Response(o, vs)
    /\ calls' = Append(calls, s3_daily_call)
    /\ pc' = "get_s3_metrics_req"
    /\ UNCHANGED <<error, stub, cpu, net_in, net_out, size_gb, obj_count, s3_requests, cost, out, exit_code>>

S3DailyFails ==
    /\ pc = "get_s3_metrics"
    /\ Raise(s3_daily_call, "storage daily batch")
    /\ UNCHANGED <<stub, resp_daily, cpu, net_in, net_out, size_gb, obj_count, s3_requests, cost>>

\* get_s3_metrics from its second backend call to its return (lines 141-162)
S3RequestOk ==
    /\ pc = "get_s3_metrics_req"
    /\ \E o \in IdOrders(RequestIds) : \E vs \in [1..Len(o) -> Samples(RunRequestValues)] :
         LET m == get_s3_metrics(resp_daily, Response(o, vs)) IN
         /\ size_gb' = m.size_gb /\ obj_count' = m.obj_count /\ s3_requests' = m.requests
    /\ calls' = Append(calls, s3_req_call)
    /\ resp_daily' = << >>
    /\ pc' = "get_ec2_cost"
    /\ UNCHANGED <<error, stub, cpu, net_in, net_out, cost, out, exit_code>>

S3RequestFails ==
    /\ pc = "get_s3_metrics_req"
    /\ Raise(s3_req_call, "storage request batch")
    /\ resp_daily' = << >>
    /\ UNCHANGED <<stub, cpu, net_in, net_out, size_gb, obj_count, s3_requests, cost>>

\* line 190: get_ec2_cost(LOOKBACK_DAYS_COST)
CostOk ==
    /\ pc = "get_ec2_cost"
    /\ \E resp \in CostResponses(RunCostDays) : cost' = get_ec2_cost(resp)
    /\ calls' = Append(calls, cost_call(LOOKBACK_DAYS_COST))
    /\ pc' = "report"
    /\ UNCHANGED <<error, stub, resp_daily, cpu, net_in, net_out, size_gb, obj_count, s3_requests, out, exit_code>>

CostFails ==
    /\ pc = "get_ec2_cost"
    /\ Raise(cost_call(LOOKBACK_DAYS_COST), "cost query")
    /\ UNCHANGED <<stub, resp_daily, cpu, net_in, net_out, size_gb, obj_count, s3_requests, cost>>

\* lines 192-212, then the normal end of the script
Report ==
    /\ pc = "report"
    /\ out' = out \o report
    /\ exit_code' = 0
    /\ pc' = "exit"
    /\ UNCHANGED <<calls, error, stub, resp_daily, cpu, net_in, net_out, size_gb, obj_count, s3_requests, cost>>

Next ==
    \/ MainEc2Ok \/ MainEc2Fails
    \/ S3DailyOk \/ S3DailyFails
    \/ S3RequestOk \/ S3RequestFails
    \/ CostOk \/ CostFails
    \/ Report

Spec == Init /\ [][Next]_vars

\* ------------------------------------------------------------------ single calls
\* Each function called once against a backend that returns a given response.
InitCall ==
    /\ \/ /\ pc = "call get_ec2_metrics"
          /\ \E o \in IdOrders(Ec2Ids) : \E vs \in [1..Len(o) -> Samples(ComputeValues)] :
               stub = [NoResponses EXCEPT !.compute = Response(o, vs)]
       \/ /\ pc = "call get_s3_metrics"
          /\ \E o \in IdOrders(DailyIds) : \E vs \in [1..Len(o) -> Samples(DailyValues)] :
             \E p \in IdOrders(RequestIds) : \E ws \in [1..Len(p) -> Samples(RequestValues)] :
               stub = [NoResponses EXCEPT !.daily = Response(o, vs), !.request = Response(p, ws)]
       \/ /\ pc = "call get_ec2_cost"
          /\ \E r \in CostResponses(CostDays) : stub = [NoResponses EXCEPT !.cost = r]
    /\ calls = << >>
    /\ error = ""
    /\ resp_daily = << >>
    /\ cpu = 0 /\ net_in = 0 /\ net_out = 0
    /\ size_gb = 0 /\ obj_count = 0 /\ s3_requests = 0
    /\ cost = 0
    /\ out = << >>
    /\ exit_code = -1

CallEc2 ==
    /\ pc = "call get_ec2_metrics"
    /\ LET m == get_ec2_metrics(stub.compute) IN
         /\ cpu' = m.cpu /\ net_in' = m.net_in /\ net_out' = m.net_out
    /\ calls' = Append(calls, ec2_call)
    /\ pc' = "returned get_ec2_metrics"
    /\ UNCHANGED <<error, stub, resp_daily, size_gb, obj_count, s3_requests, cost, out, exit_code>>

CallS3 ==
    /\ pc = "call get_s3_metrics"
    /\ LET m == get_s3_metrics(stub.daily, stub.request) IN
         /\ size_gb' = m.size_gb /\ obj_count' = m.obj_count /\ s3_requests' = m.requests
    /\ calls' = calls \o << s3_daily_call, s3_req_call >>
    /\ pc' = "returned get_s3_metrics"
    /\ UNCHANGED <<error, stub, resp_daily, cpu, net_in, net_out, cost, out, exit_code>>

CallCost ==
    /\ pc = "call get_ec2_cost"
    /\ cost' = get_ec2_cost(stub.cost)
    /\ calls' = Append(calls, cost_call(LOOKBACK_DAYS_COST))
    /\ pc' = "returned get_ec2_cost"
    /\ UNCHANGED <<error, stub, resp_daily, cpu, net_in, net_out, size_gb, obj_count, s3_requests, out, exit_code>>

NextCall == CallEc2 \/ CallS3 \/ CallCost

SpecCall == InitCall /\ [][NextCall]_vars

\* ------------------------------------------------------------------ properties
Range(seq) == {seq[i] : i \in 1..Len(seq)}
Printed(tag) == \E l \in Range(out) : l.tag = tag
Succeeded == pc = "exit" /\ exit_code = 0
Returned(f) == pc = f

\* the samples of the series named id, << >> if the response has no such series
SamplesOf(resp, id) ==
    LET S == {i \in 1..Len(resp) : resp[i].Id = id}
    IN  IF S = {} THEN << >> ELSE resp[CHOOSE i \in S : TRUE].Values

\* resp with the series s put after its first p series
InsertAt(resp, p, s) == (SubSeq(resp, 1, p) \o << s >>) \o SubSeq(resp, p + 1, Len(resp))

\* thresholds of the storage verdict: 1 GB in thousandths, objects, requests
minBucketGB == 1000
minObjectCount == 50
minRequestCount == 20

\* C1: the compute verdict printed by a run is Underutilized iff cpu, net_in and
\* net_out are each strictly below their threshold, and Normal otherwise.
C1_ComputeVerdictIff ==
    Succeeded =>
        /\ Printed("ec2_underutilized") <=>
             (cpu < CPU_THRESHOLD /\ net_in < NET_THRESHOLD_MB /\ net_out < NET_THRESHOLD_MB)
        /\ Printed("ec2_normal") <=>
             (cpu >= CPU_THRESHOLD \/ net_in >= NET_THRESHOLD_MB \/ net_out >= NET_THRESHOLD_MB)

\* cpu exactly at its threshold, both network values below: Normal
C1_Witness ==
    /\ Succeeded /\ cpu = CPU_THRESHOLD /\ net_in < NET_THRESHOLD_MB /\ net_out < NET_THRESHOLD_MB
    /\ Printed("ec2_normal") /\ ~Printed("ec2_underutilized")

\* C2: cpu is the first sample of the series named cpu, 0.0 when that series is
\* absent or empty, whatever the other series hold.
C2_CpuFromCpuSeries ==
    Returned("returned get_ec2_metrics") =>
        cpu = (IF SamplesOf(stub.compute, "cpu") = << >> THEN 0
               ELSE PyRound2(SamplesOf(stub.compute, "cpu")[1]))

\* C3: a run in which a backend call failed ends with status 2 and prints no
\* value, no cost and no verdict; values and verdicts are printed only by a run
\* whose four backend calls all succeeded.
ReportTags ==
    {"cpu", "net_in", "net_out", "size_gb", "obj_count", "s3_requests", "cost",
     "ec2_underutilized", "ec2_normal", "s3_underutilized", "s3_normal"}

C3_FailureMeansNoReport ==
    /\ error # "" => /\ pc = "exit" /\ exit_code = 2
                     /\ \A t \in ReportTags : ~Printed(t)
    /\ (\E t \in ReportTags : Printed(t)) => error = "" /\ Len(calls) = 4 /\ exit_code = 0

\* the storage request batch failed after two successful batches
C3_Witness ==
    error = "storage request batch" /\ Len(calls) = 3 /\ exit_code = 2 /\ Printed("ERROR")

\* C4: net_in, net_out, size_gb, obj_count and s3_requests are 0 when their
\* series is absent or empty, and are derived from the first sample otherwise.
FieldOf(resp, id, convert(_)) ==
    IF SamplesOf(resp, id) = << >> THEN 0 ELSE convert(SamplesOf(resp, id)[1])
ToMB(v) == PyRoundDiv(v, 100, MB)
ToGB(v) == PyRoundDiv(v, 1000, GB)

C4_DefaultOrFirstSample ==
    /\ Returned("returned get_ec2_metrics") =>
         /\ error = ""
         /\ net_in = FieldOf(stub.compute, "net_in", ToMB)
         /\ net_out = FieldOf(stub.compute, "net_out", ToMB)
    /\ Returned("returned get_s3_metrics") =>
         /\ error = ""
         /\ size_gb = FieldOf(stub.daily, "bucket_size", ToGB)
         /\ obj_count = FieldOf(stub.daily, "obj_count", PyInt)
         /\ s3_requests = FieldOf(stub.request, "all_requests", PyInt)

\* net_in has two different samples, net_out is empty or absent
C4_Witness ==
    /\ Returned("returned get_ec2_metrics")
    /\ Len(SamplesOf(stub.compute, "net_in")) = 2
    /\ SamplesOf(stub.compute, "net_in")[1] = Val(5242880)
    /\ SamplesOf(stub.compute, "net_in")[2] = Val(10480518)
    /\ SamplesOf(stub.compute, "net_out") = << >>
    /\ net_in = 500 /\ net_out = 0

\* C5: the storage verdict printed by a run is Underutilized iff size_gb,
\* obj_count and s3_requests are each strictly below their threshold.
C5_StorageVerdictIff ==
    Succeeded =>
        /\ Printed("s3_underutilized") <=>
             (size_gb < minBucketGB /\ obj_count < minObjectCount /\ s3_requests < minRequestCount)
        /\ Printed("s3_normal") <=>
             (size_gb >= minBucketGB \/ obj_count >= minObjectCount \/ s3_requests >= minRequestCount)

\* size_gb exactly 1.000, the two counts below their thresholds: Normal
C5_Witness ==
    /\ Succeeded /\ size_gb = minBucketGB /\ obj_count < minObjectCount
    /\ s3_requests < minRequestCount
    /\ Printed("s3_normal") /\ ~Printed("s3_underutilized")

\* C6: the cost is the sum of the days' amounts, a day without amount counting
\* 0, rounded to 4 decimals once: the nearest ten-thousandth to the exact sum.
RECURSIVE AmountSum(_, _)
AmountSum(resp, I) ==
    IF I = {} THEN 0
    ELSE LET i == CHOOSE j \in I : TRUE
         IN  (IF resp[i].has = "amount" THEN resp[i].amt ELSE 0) + AmountSum(resp, I \ {i})

SpecExampleDays ==
    << Day("amount", 123450), Day("amount", 0), Day("amount", 300000), Day("no_total", 0) >>

C6_CostIsRoundedSum ==
    Returned("returned get_ec2_cost") =>
        /\ error = ""
        /\ 10 * cost - AmountSum(stub.cost, DOMAIN stub.cost) \in -4..4
        /\ stub.cost = << >> => cost = 0
        /\ stub.cost = SpecExampleDays => cost = 42345

\* [1.2345, 0, 3.0, absent] gives 4.2345
C6_Witness ==
    Returned("returned get_ec2_cost") /\ stub.cost = SpecExampleDays /\ cost = 42345

\* C7: a series with an unrecognized Id, put anywhere in a response, changes no
\* field of the result.
UnknownSeries == {[Id |-> "other", Values |-> << v >>] : v \in ComputeValues}

C7_UnknownSeriesIgnored ==
    /\ Returned("returned get_ec2_metrics") =>
         \A s \in UnknownSeries : \A p \in 0..Len(stub.compute) :
             get_ec2_metrics(InsertAt(stub.compute, p, s))
               = [cpu |-> cpu, net_in |-> net_in, net_out |-> net_out]
    /\ Returned("returned get_s3_metrics") =>
         \A s \in UnknownSeries :
             /\ \A p \in 0..Len(stub.daily) :
                  get_s3_metrics(InsertAt(stub.daily, p, s), stub.request)
                    = [size_gb |-> size_gb, obj_count |-> obj_count, requests |-> s3_requests]
             /\ \A p \in 0..Len(stub.request) :
                  get_s3_metrics(stub.daily, InsertAt(stub.request, p, s))
                    = [size_gb |-> size_gb, obj_count |-> obj_count, requests |-> s3_requests]

\* C8: get_s3_metrics issues two batches, bucket_size and obj_count with period
\* 1 day over 2 days, then all_requests with period 5 minutes over 1 hour;
\* size_gb and obj_count depend on the daily response only, s3_requests on the
\* request response only.
Ids(call) == [i \in 1..Len(call.queries) |-> call.queries[i].Id]
Periods(call) == [i \in 1..Len(call.queries) |-> call.queries[i].Period]
Stray(ids) == {[Id |-> id, Values |-> << Val(20) >>] : id \in ids}

C8_TwoSeparateBatches ==
    Returned("returned get_s3_metrics") =>
        /\ Len(calls) = 2
        /\ calls[1].api = "get_metric_data" /\ calls[2].api = "get_metric_data"
        /\ Ids(calls[1]) = << "bucket_size", "obj_count" >>
        /\ Periods(calls[1]) = << 86400, 86400 >>
        /\ calls[1].window = 2 * 86400
        /\ Ids(calls[2]) = << "all_requests" >>
        /\ Periods(calls[2]) = << 300 >>
        /\ calls[2].window = 3600
        /\ \A s \in Stray(RequestIds), t \in Stray(DailyIds) :
             LET m == get_s3_metrics(<< s >> \o stub.daily, stub.request \o << t >>)
             IN  m.size_gb = FieldOf(stub.daily, "bucket_size", ToGB)
                 /\ m.obj_count = FieldOf(stub.daily, "obj_count", PyInt)
                 /\ m.requests = FieldOf(stub.request, "all_requests", PyInt)
                 /\ m.size_gb = size_gb /\ m.obj_count = obj_count /\ m.requests = s3_requests

C8_Witness ==
    /\ Returned("returned get_s3_metrics") /\ Len(calls) = 2
    /\ size_gb = 1000 /\ obj_count = 49 /\ s3_requests = 19

\* C9: the backend calls of a run are a prefix of compute batch, storage daily
\* batch, storage request batch, cost query, each once; the call that failed is
\* the last one issued.
CallOrder == << ec2_call, s3_daily_call, s3_req_call, cost_call(LOOKBACK_DAYS_COST) >>
FailedCall ==
    CASE error = "compute batch" -> 1
      [] error = "storage daily batch" -> 2
      [] error = "storage request batch" -> 3
      [] error = "cost query" -> 4
      [] OTHER -> 0

C9_NoRetryFailFast ==
    /\ Len(calls) <= 4
    /\ calls = SubSeq(CallOrder, 1, Len(calls))
    /\ error # "" => pc = "exit" /\ Len(calls) = FailedCall

\* the storage daily batch failed: two calls issued, none after it
C9_Witness ==
    error = "storage daily batch" /\ pc = "exit" /\ Len(calls) = 2

\* C10: the first sample is converted once: bytes / 1024^2 rounded to 2
\* decimals, bytes / 1024^3 rounded to 3 decimals, counts truncated to integers.
\* The reference values are those of the source expressions evaluated in Python.
RefMB(v) ==
    CASE v = Half(2) -> 0
      [] v = Val(5242880) -> 500
      [] v = Val(10480518) -> 1000
RefGB(v) ==
    CASE v = Half(49) -> 0
      [] v = Val(53687091) -> 50
      [] v = Val(1073741824) -> 1000
RefInt(v) ==
    CASE v = Half(49) -> 49
      [] v = Half(19) -> 19
      [] v = Val(2) -> 2
      [] v = Val(20) -> 20
      [] v = Val(53687091) -> 53687091
      [] v = Val(1073741824) -> 1073741824

C10_UnitNormalization ==
    /\ Returned("returned get_ec2_metrics") =>
         /\ net_in = FieldOf(stub.compute, "net_in", RefMB)
         /\ net_out = FieldOf(stub.compute, "net_out", RefMB)
    /\ Returned("returned get_s3_metrics") =>
         /\ size_gb = FieldOf(stub.daily, "bucket_size", RefGB)
         /\ obj_count = FieldOf(stub.daily, "obj_count", RefInt)
         /\ s3_requests = FieldOf(stub.request, "all_requests", RefInt)

\* 53687091 bytes give 0.05 GB, 49.5 objects give 49, 19.5 requests give 19
C10_Witness ==
    /\ Returned("returned get_s3_metrics")
    /\ SamplesOf(stub.daily, "bucket_size") = << Val(53687091), Val(1073741824) >>
    /\ SamplesOf(stub.daily, "obj_count") = << Half(49) >>
    /\ SamplesOf(stub.request, "all_requests") = << Half(19) >>
    /\ size_gb = 50 /\ obj_count = 49 /\ s3_requests = 19

====
